---- MODULE Spec2Model ----
(***************************************************************************)
(* Model of the multi-pass extraction engine of extraction/services.py:    *)
(* one Extraction Job, its Field Results and its Validation/Repair Events, *)
(* driven by run_multi_pass_extraction (start), retry_extraction_job       *)
(* (retry) and the HTTP retry endpoint of extraction/views.py.             *)
(*                                                                         *)
(* `job' is the in-memory object self.job of the running service, `db' is  *)
(* the persisted row: job.save() copies job to db.  Every action is one    *)
(* stretch of code between two commits to the store.                       *)
(***************************************************************************)
EXTENDS Integers, Sequences, FiniteSets, TLC

VARIABLES
    schema_definition,  \* job.schema_definition['fields']: sequence of field definitions
    schema_name,        \* job.schema_name
    schema_keys,        \* the keys of the dictionary job.schema_definition
    job,                \* self.job, the in-memory job object of the service
    db,                 \* the persisted extraction_jobs row
    results,            \* the persisted extraction_results rows of the job
    events,             \* the persisted validation_history rows, in creation order
    pc,                 \* position of the run inside run_multi_pass_extraction
    pass_num,           \* loop variable of run_multi_pass_extraction
    response,           \* the structured value returned by the last provider call
    repair_schema,      \* the narrowed schema of the last repair call
    document_text,      \* the text handed to the provider prompt
    calls,              \* number of provider invocations so far
    calls_run,          \* provider invocations of the current run
    reported,           \* the sums of the usage reported by the provider calls so far
    fault,              \* where the current run met a fault
    req,                \* the last operation invoked by a caller
    nreq,               \* number of operations invoked so far
    row_idx,            \* position of _save_extraction_results in the response
    ret,                \* what the last operation returned or raised
    pre,                \* status, current_pass and retry_count when it was invoked
    reader,             \* what a GET of the job, concurrent with the run, has read
    noop_repair,        \* a repair of the job found no invalid result to repair
    other               \* the request handled beside this one: its job object and position

\* The job's schema, which no operation assigns.
schema_vars == <<schema_definition, schema_name, schema_keys>>
\* The local variables of the run.
locals == <<pass_num, response, repair_schema, document_text, row_idx>>
\* What the run has met so far.
meters == <<calls, calls_run, fault, reported>>
\* The caller's side of the last operation.
caller == <<req, nreq, ret, pre>>

vars == <<schema_vars, job, db, results, events, pc, locals, meters, caller, reader, noop_repair, other>>

(***************************************************************************)
(* Bounds of the model.                                                    *)
(***************************************************************************)
MaxFields == 2      \* field definitions per schema
MaxPasses == 3      \* largest total_passes
MaxRetries == 2     \* largest max_retries
MaxOps == 3         \* operations invoked on the job through the views
MaxEngineOps == 2   \* operations invoked on the job by a caller of services.py
MaxConcurrentFields == 1   \* field definitions per schema, with two handlers
MaxConcurrentPasses == 2   \* largest total_passes, with two handlers

NULL == "None"
PLACEHOLDER == "Document text not available."

\* models.py STATUS_CHOICES
STATUS_CHOICES == {"pending", "processing", "completed", "failed", "validating", "repairing"}

\* The validator's confidence threshold, in hundredths (0.5).
ConfidenceThreshold == 50
\* The confidence written for a repaired value, in hundredths (0.85).
RepairConfidence == 85

\* The values a provider can return for a field: null or some value.
Values == {NULL, "v"}

\* The schemas of the model: n <= MaxFields field definitions with the
\* distinct names n, ..., 1 in this order (so the schema's order is not the
\* order of the names), each required or optional.
Schemas ==
    UNION {{[i \in 1..n |-> [name |-> n + 1 - i, description |-> "a field", type |-> "string",
                           required |-> r[i]]] :
              r \in [1..n -> BOOLEAN]} : n \in 0..MaxFields}

Range(s) == {s[i] : i \in 1..Len(s)}

\* schema_fields = {f['name']: f for f in schema_definition['fields']}
SchemaNames(schema) == {schema[i].name : i \in 1..Len(schema)}

FieldDef(schema, name) == CHOOSE f \in Range(schema) : f.name = name

\* A response without a usage record.
NoUsage == [reported |-> FALSE, prompt_tokens |-> 0, completion_tokens |-> 0, total_tokens |-> 0]

\* The token usage a provider call can report: none, or a usage record.
Usages == {NoUsage, [reported |-> TRUE, prompt_tokens |-> 2, completion_tokens |-> 1,
                     total_tokens |-> 3]}

\* No token reported yet.
NoTokens == [prompt_tokens |-> 0, completion_tokens |-> 0, total_tokens |-> 0]

\* The sums of reported usage after a call that returned `usage`.
AddUsage(sums, usage) ==
    [prompt_tokens |-> sums.prompt_tokens + usage.prompt_tokens,
     completion_tokens |-> sums.completion_tokens + usage.completion_tokens,
     total_tokens |-> sums.total_tokens + usage.total_tokens]

\* confidence_score is kept as the pair (sum, count) of the quotient
\* total_confidence / field_count; None is the pair with count 0.
NoScore == [sum |-> 0, count |-> 0]

\* No schema narrowed yet.
NoSchema == [name |-> "", fields |-> <<>>]

(***************************************************************************)
(* The job record: ExtractionJob.objects.create with the model defaults.   *)
(***************************************************************************)
NewJob(total_passes, max_retries) ==
    [status |-> "pending", current_pass |-> 0, total_passes |-> total_passes,
     total_fields |-> 0, extracted_fields |-> 0, confidence_score |-> NoScore,
     error_message |-> NULL, retry_count |-> 0, max_retries |-> max_retries,
     prompt_tokens |-> 0, completion_tokens |-> 0, total_tokens |-> 0,
     completed_at |-> NULL]

\* The local variables before a run and after it returned.
NoLocals ==
    /\ pass_num = 0
    /\ response = <<>>
    /\ repair_schema = NoSchema
    /\ document_text = NULL
    /\ row_idx = 1

\* What a caller sees of the job when it invokes an operation.
Seen(j) == [status |-> j.status, current_pass |-> j.current_pass,
            retry_count |-> j.retry_count]

\* create_extraction_job: schema_definition = {'name': schema_name,
\* 'description': schema_description, 'fields': fields}
WellFormedKeys == {"name", "description", "fields"}

\* A reader that has read nothing.
NoRead == [phase |-> "idle", status |-> "none", current_pass |-> 0]

\* What a request handler holds of its own: the job object it has loaded,
\* its position and local variables, and what is recorded of its run.
Descheduled ==
    [job |-> job, pc |-> pc, pass_num |-> pass_num, response |-> response,
     repair_schema |-> repair_schema, document_text |-> document_text,
     row_idx |-> row_idx, calls_run |-> calls_run, fault |-> fault,
     req |-> req, ret |-> ret, pre |-> pre]

\* The state after construction, but for the schema.
InitJobOf(passes) ==
    /\ schema_name = "Schema"
    /\ \E tp \in passes, mr \in 0..MaxRetries :
          /\ job = NewJob(tp, mr)
          /\ db = NewJob(tp, mr)
    /\ results = {}
    /\ events = <<>>
    /\ pc = "idle"
    /\ NoLocals
    /\ calls = 0
    /\ reported = NoTokens
    /\ calls_run = 0
    /\ fault = "none"
    /\ req = "none"
    /\ nreq = 0
    /\ ret = "none"
    /\ pre = Seen(db)
    /\ reader = NoRead
    /\ noop_repair = FALSE
    /\ other = Descheduled

\* The job as the create view makes it: the serializer admits a total_passes
\* from 1 to 5.
InitJob == InitJobOf(1..MaxPasses)

\* A job as create_extraction_job has just created it.
Init ==
    /\ schema_definition \in Schemas
    /\ schema_keys = WellFormedKeys
    /\ InitJob

\* A job row as any caller of services.py can have created it: its
\* schema_definition may lack the key 'fields', and then
\* schema_def.get('fields', []) is the empty list.
EngineInit ==
    /\ \/ schema_definition \in Schemas /\ schema_keys = WellFormedKeys
       \/ schema_definition = <<>> /\ schema_keys = {"name", "description"}
    /\ InitJob

(***************************************************************************)
(* Pure helpers of the service.                                            *)
(***************************************************************************)

\* job.save(): the whole in-memory object is written to the row.
Save(j) == j

\* A heuristic that gives every value the confidence 0.9.
HeuristicConfidence_Flat(value) == 90

\* _save_extraction_results: confidence = 0.9 if value is not None else 0.3
HeuristicConfidence(value) == IF value # NULL THEN 90 ELSE 30

\* A first pass that writes a confidence of its own, 1.0 for a value and 0.0
\* for none.
NewResult_OwnScale(j, schema, field_name, value) ==
    [field_name |-> field_name,
     field_type |-> FieldDef(schema, field_name).type,
     value |-> value,
     confidence |-> IF value # NULL THEN 100 ELSE 0,
     is_valid |-> TRUE,
     extraction_pass |-> j.current_pass + 1]

\* ExtractionResult.objects.create(...) of _save_extraction_results;
\* is_valid takes the model default True.
NewResult(j, schema, field_name, value) ==
    [field_name |-> field_name,
     field_type |-> FieldDef(schema, field_name).type,
     value |-> value,
     confidence |-> HeuristicConfidence(value),
     is_valid |-> TRUE,
     extraction_pass |-> j.current_pass + 1]

\* A store without the unique constraint.
UniqueViolation_Never(rows, r) == FALSE

\* unique_together = [['job', 'field_name', 'extraction_pass']]
UniqueViolation(rows, r) ==
    \E x \in rows : x.field_name = r.field_name /\ x.extraction_pass = r.extraction_pass

\* extract: usage tracking, when the response carries a usage record.
TrackUsage(j, usage) ==
    IF ~usage.reported THEN j
    ELSE [j EXCEPT !.prompt_tokens = usage.prompt_tokens,
                   !.completion_tokens = usage.completion_tokens,
                   !.total_tokens = usage.total_tokens]

\* A handler that records the fault and leaves retry_count alone.
ExtractFailed_NoRetryCount(j, e) ==
    [j EXCEPT !.status = "failed", !.error_message = e]

\* extract's exception handler.
ExtractFailed(j, e) ==
    [j EXCEPT !.status = "failed", !.error_message = e, !.retry_count = @ + 1]

\* status = 'completed'; completed_at = timezone.now()
MarkCompleted(j) == [j EXCEPT !.status = "completed", !.completed_at = "now"]

\* The sum of a set of rows' confidences.
RECURSIVE SumConfidence(_)
SumConfidence(rows) ==
    IF rows = {} THEN 0
    ELSE LET r == CHOOSE x \in rows : TRUE
         IN r.confidence + SumConfidence(rows \ {r})

\* Statistics that leave current_pass as it is.
UpdateStatistics_KeepPass(j, schema, written) ==
    [j EXCEPT !.total_fields = Cardinality(SchemaNames(schema)),
              !.extracted_fields = Cardinality(written),
              !.confidence_score =
                  IF written = {} THEN @
                  ELSE [sum |-> SumConfidence(written), count |-> Cardinality(written)]]

\* _save_extraction_results: the job statistics after the rows `written`
\* were created.
UpdateStatistics(j, schema, written) ==
    LET field_count == Cardinality(written)
        scored == IF field_count > 0
                  THEN [j EXCEPT !.confidence_score =
                            [sum |-> SumConfidence(written), count |-> field_count]]
                  ELSE j
    IN [scored EXCEPT !.total_fields = Cardinality(SchemaNames(schema)),
                      !.extracted_fields = field_count,
                      !.current_pass = @ + 1]

\* The rows of a query as the sequence in ascending order of field_name (the
\* ordering ['job', 'field_name'] of ExtractionResult.Meta).
OrderedResults(rows) ==
    [i \in 1..Cardinality(rows) |->
        CHOOSE r \in rows :
            Cardinality({x \in rows : x.field_name < r.field_name}) = i - 1]

\* ExtractionResult.objects.filter(job=job, extraction_pass=p)
ResultsOfPass(rows, p) == {r \in rows : r.extraction_pass = p}

\* A validator whose threshold lets the confidence of a null value pass.
LowConfidence_Lenient(r) == r.confidence < 30

\* validate_results: the confidence rule.
LowConfidence(r) == r.confidence < ConfidenceThreshold

\* A rule that takes every field for required.
RequiredNull_AnyNull(schema, r) == r.value = NULL

\* validate_results: the required-field rule.
RequiredNull(schema, r) ==
    /\ r.field_name \in SchemaNames(schema)
    /\ FieldDef(schema, r.field_name).required
    /\ r.value = NULL

\* validate_results: the entries one result adds to validation_errors.
ResultErrors(schema, r) ==
    (IF LowConfidence(r) THEN <<<<r.field_name, "Low confidence">>>> ELSE <<>>)
    \o (IF RequiredNull(schema, r) THEN <<<<r.field_name, "Required field is null">>>> ELSE <<>>)

\* validate_results: validation_errors over the results of a pass, in the
\* order of the query.
RECURSIVE ErrorsOf(_, _, _)
ErrorsOf(schema, ordered, i) ==
    IF i > Len(ordered) THEN <<>>
    ELSE ResultErrors(schema, ordered[i]) \o ErrorsOf(schema, ordered, i + 1)

ValidationErrors(schema, rows) == ErrorsOf(schema, OrderedResults(rows), 1)

\* validate_results: a flagged result is saved with is_valid = False.
MarkInvalid(schema, rows, p) ==
    {IF r.extraction_pass = p /\ ResultErrors(schema, r) # <<>>
     THEN [r EXCEPT !.is_valid = FALSE] ELSE r : r \in rows}

\* A validation that records every outcome as valid.
ValidateEvent_Passing(j, errors) ==
    [action |-> "validate", pass_number |-> j.current_pass,
     is_valid |-> TRUE,
     validation_errors |-> errors,
     repaired_fields |-> <<>>]

\* ValidationHistory.objects.create(action='validate', ...); an empty
\* validation_errors is stored as None, here the empty sequence.
ValidateEvent(j, errors) ==
    [action |-> "validate", pass_number |-> j.current_pass,
     is_valid |-> (Len(errors) = 0),
     validation_errors |-> errors,
     repaired_fields |-> <<>>]

\* A repair that takes every result of the current pass for invalid.
InvalidResults_All(rows, j) == ResultsOfPass(rows, j.current_pass)

\* repair_results: the invalid results of the current pass.
InvalidResults(rows, j) ==
    {r \in ResultsOfPass(rows, j.current_pass) : ~r.is_valid}

\* A narrowing that makes every selected field optional.
NarrowedFields_Relaxed(schema, invalid_field_names) ==
    LET selected == SelectSeq(schema, LAMBDA f : f.name \in invalid_field_names)
    IN [i \in 1..Len(selected) |-> [selected[i] EXCEPT !.required = FALSE]]

\* repair_results: the fields of the original schema named by the invalid
\* results, in the schema's order.
NarrowedFields(schema, invalid_field_names) ==
    SelectSeq(schema, LAMBDA f : f.name \in invalid_field_names)

\* A planner that loses the first selected field.
RepairSchema_DropFirst(name, schema, invalid_field_names) ==
    LET selected == NarrowedFields(schema, invalid_field_names)
    IN [name |-> name \o "_Repair",
        fields |-> IF selected = <<>> THEN <<>> ELSE Tail(selected)]

\* repair_results: repair_schema
RepairSchema(name, schema, invalid_field_names) ==
    [name |-> name \o "_Repair", fields |-> NarrowedFields(schema, invalid_field_names)]

\* A repair that rates the new value as the first pass does, and leaves a
\* null marked invalid.
Repaired_Rated(r, value) ==
    [r EXCEPT !.value = value, !.confidence = HeuristicConfidence(value),
              !.is_valid = (value # NULL)]

\* repair_results: the update of one invalid result from the response.
Repaired(r, value) ==
    [r EXCEPT !.value = value, !.confidence = RepairConfidence, !.is_valid = TRUE]

\* repair_results: the rows after the response `vals` was written back.
ApplyRepair(rows, j, vals) ==
    {IF r \in InvalidResults(rows, j) /\ r.field_name \in DOMAIN vals
     THEN Repaired(r, vals[r.field_name]) ELSE r : r \in rows}

\* A repair event numbered as a pass of its own.
RepairEvent_NextPass(j, narrowed) ==
    [action |-> "repair", pass_number |-> j.current_pass + 1, is_valid |-> TRUE,
     validation_errors |-> <<>>,
     repaired_fields |-> [i \in 1..Len(narrowed) |-> narrowed[i].name]]

\* ValidationHistory.objects.create(action='repair', ...); repaired_fields
\* follows the order of the response, which is the narrowed schema's.
RepairEvent(j, narrowed) ==
    [action |-> "repair", pass_number |-> j.current_pass, is_valid |-> TRUE,
     validation_errors |-> <<>>,
     repaired_fields |-> [i \in 1..Len(narrowed) |-> narrowed[i].name]]

\* A limit that admits one retry too many.
RetryLimitReached_OffByOne(j) == j.retry_count > j.max_retries

\* retry_extraction_job: if job.retry_count >= job.max_retries
RetryLimitReached(j) == j.retry_count >= j.max_retries

\* A reset that counts the retry as well.
ResetForRetry_Counted(j) ==
    [j EXCEPT !.status = "pending", !.error_message = NULL,
              !.retry_count = j.retry_count + 1]

\* retry_extraction_job: the reset of the job.
ResetForRetry(j) == [j EXCEPT !.status = "pending", !.error_message = NULL]

\* A view that passes a job in any status to retry_extraction_job.
ViewAdmits_Any(j) == TRUE

\* views.py retry: only a failed job is passed to retry_extraction_job.
ViewAdmits(j) == j.status = "failed"

\* A loop with one iteration more than total_passes.
HasNextPass_OneMore(j, n) == n < j.total_passes

\* run_multi_pass_extraction: the loop has an iteration after pass_num.
HasNextPass(j, n) == n < j.total_passes - 1

(***************************************************************************)
(* Operations invoked by callers.  The service runs synchronously in the   *)
(* caller's request, so an operation is invoked when no run is in progress.*)
(* Init is the job as create_extraction_job has just created it.           *)
(***************************************************************************)

\* The frame of an invocation.
Invoke(name, limit) ==
    /\ pc = "idle"
    /\ nreq < limit
    /\ nreq' = nreq + 1
    /\ req' = name
    /\ pre' = Seen(db)

\* run_multi_pass_extraction, up to the first iteration of its loop, on the
\* job object j.
EnterRun(j) ==
    /\ job' = j
    /\ pc' = IF j.total_passes > 0 THEN "extract" ELSE "complete_final"
    /\ fault' = "none"
    /\ calls_run' = 0
    /\ ret' = "running"

\* An invocation that is refused before anything is changed.
Refuse(result) ==
    /\ ret' = result
    /\ UNCHANGED <<job, db, pc, fault, calls_run>>

\* create_extraction_job: service.run_multi_pass_extraction() on the job it
\* has just created.
CreateExtractionJob ==
    /\ nreq = 0
    /\ Invoke("start", MaxOps)
    /\ EnterRun(db)
    /\ UNCHANGED <<reader, noop_repair, schema_vars, other, db, results, events, locals, calls, reported>>

\* start: ExtractionService(job).run_multi_pass_extraction() called on a
\* job in any state.  The method looks at no status.
RunMultiPassExtraction ==
    /\ Invoke("start", MaxEngineOps)
    /\ EnterRun(db)
    /\ UNCHANGED <<reader, noop_repair, schema_vars, other, db, results, events, locals, calls, reported>>

\* retry_extraction_job(job_id) on the row it reads from the store.
RetryBody ==
    IF RetryLimitReached(db)
    THEN Refuse("ValueError")
    ELSE /\ db' = Save(ResetForRetry(db))
         /\ EnterRun(ResetForRetry(db))

\* retry: retry_extraction_job called on a job in any state.
RetryExtractionJob ==
    /\ Invoke("retry", MaxEngineOps)
    /\ RetryBody
    /\ UNCHANGED <<reader, noop_repair, schema_vars, other, results, events, locals, calls, reported>>

\* ExtractionJobViewSet.retry: POST /api/jobs/<id>/retry/
ViewRetry ==
    /\ Invoke("view_retry", MaxOps)
    /\ IF ViewAdmits(db) THEN RetryBody ELSE Refuse("HTTP_400")
    /\ UNCHANGED <<reader, noop_repair, schema_vars, other, results, events, locals, calls, reported>>

(***************************************************************************)
(* extract                                                                 *)
(***************************************************************************)

\* The run returns `result` to its caller; its local variables are gone.
Return(result) ==
    /\ pc' = "idle"
    /\ ret' = result
    /\ pass_num' = 0
    /\ response' = <<>>
    /\ repair_schema' = NoSchema
    /\ document_text' = NULL
    /\ row_idx' = 1

\* A first pass that shows the job as validating before it has written a
\* result.
ExtractBegin_Advanced ==
    /\ pc = "extract"
    /\ job' = [job EXCEPT !.status = "validating"]
    /\ db' = Save(job')
    /\ pc' = "extract_fetch"
    /\ UNCHANGED <<reader, noop_repair, schema_vars, other, results, events, locals, meters, caller>>

\* extract: status = 'processing'; save
ExtractBegin ==
    /\ pc = "extract"
    /\ job' = [job EXCEPT !.status = "processing"]
    /\ db' = Save(job')
    /\ pc' = "extract_fetch"
    /\ UNCHANGED <<reader, noop_repair, schema_vars, other, results, events, locals, meters, caller>>

\* An extract that keeps the empty text of a failed fetch.
ExtractDocumentText_Raw(fetched) == fetched

\* _get_document_text as extract uses it: a failed fetch gives "", and
\* extract replaces an empty text by the placeholder.
ExtractDocumentText(fetched) == IF fetched = "" THEN PLACEHOLDER ELSE fetched

\* extract: document_text = self._get_document_text(), which returns the
\* raw text, or "" when the fetch fails.
ExtractFetch ==
    /\ pc = "extract_fetch"
    /\ \E fetched \in {"", "text"} : document_text' = ExtractDocumentText(fetched)
    /\ pc' = "extract_call"
    /\ UNCHANGED <<reader, noop_repair, schema_vars, other, job, db, results, events, pass_num, response, repair_schema,
                   row_idx, meters, caller>>

\* extract: compile the schema, build the prompt, call the provider.  The
\* provider raises, or returns a value for every field of the schema and
\* possibly a usage record.
ExtractCall ==
    /\ pc = "extract_call"
    /\ calls' = calls + 1
    /\ calls_run' = calls_run + 1
    /\ \/ /\ job' = ExtractFailed(job, "ProviderError")
          /\ db' = Save(job')
          /\ fault' = "extract"
          /\ Return("False")
          /\ UNCHANGED reported
       \/ /\ \E vals \in [SchemaNames(schema_definition) -> Values], usage \in Usages :
                /\ response' = vals
                /\ job' = TrackUsage(job, usage)
                /\ reported' = AddUsage(reported, usage)
          /\ row_idx' = 1
          /\ document_text' = NULL
          /\ pc' = "save_results"
          /\ UNCHANGED <<db, fault, ret, pass_num, repair_schema>>
    /\ UNCHANGED <<reader, noop_repair, schema_vars, other, results, events, req, nreq, pre>>

\* A fault of the store while the run writes: the handler that catches it
\* commits the job as failed, or the store fails the handlers' saves too and
\* the fault reaches the caller of the run with nothing committed.
StoreFault(failed) ==
    \/ /\ job' = failed
       /\ db' = Save(job')
       /\ fault' = "extract"
       /\ Return("False")
    \/ /\ job' = db
       /\ UNCHANGED db
       /\ fault' = "store"
       /\ Return("StoreError")

\* _save_extraction_results: one iteration of the loop over the response,
\* which lists the fields in the schema's order.  A row that breaks the
\* unique constraint, or that the store fails to write, raises into
\* extract's handler.
SaveResult ==
    /\ pc = "save_results"
    /\ row_idx <= Len(schema_definition)
    /\ LET name == schema_definition[row_idx].name
           r == NewResult(job, schema_definition, name, response[name])
       IN IF UniqueViolation(results, r)
          THEN /\ job' = ExtractFailed(job, "IntegrityError")
               /\ db' = Save(job')
               /\ fault' = "extract"
               /\ Return("False")
               /\ UNCHANGED results
          ELSE \/ /\ results' = results \cup {r}
                  /\ row_idx' = row_idx + 1
                  /\ UNCHANGED <<job, db, fault, pc, ret, pass_num, response,
                                 repair_schema, document_text>>
               \/ /\ StoreFault(ExtractFailed(job, "StoreError"))
                  /\ UNCHANGED results
    /\ UNCHANGED <<reader, noop_repair, schema_vars, other, events, calls, calls_run, reported, req, nreq, pre>>

\* _save_extraction_results: schema_definition['fields'], which raises
\* KeyError into extract's handler when the key is missing; the job
\* statistics, current_pass += 1, save
SaveStatistics ==
    /\ pc = "save_results"
    /\ row_idx > Len(schema_definition)
    /\ IF "fields" \notin schema_keys
       THEN /\ job' = ExtractFailed(job, "KeyError")
            /\ db' = Save(job')
            /\ fault' = "extract"
            /\ Return("False")
            /\ UNCHANGED <<calls, calls_run, reported, req, nreq, pre>>
       ELSE /\ job' = UpdateStatistics(job, schema_definition,
                                       ResultsOfPass(results, job.current_pass + 1))
            /\ db' = Save(job')
            /\ pc' = "extract_done"
            /\ UNCHANGED <<locals, meters, caller>>
    /\ UNCHANGED <<reader, noop_repair, schema_vars, other, results, events>>

\* extract: status = 'completed'; completed_at = now; save; return True
ExtractCompleted ==
    /\ pc = "extract_done"
    /\ job' = MarkCompleted(job)
    /\ db' = Save(job')
    /\ pc' = "validate"
    /\ UNCHANGED <<reader, noop_repair, schema_vars, other, results, events, locals, meters, caller>>

(***************************************************************************)
(* validate_results and the orchestrator's decision                        *)
(***************************************************************************)

\* validate_results: status = 'validating'; save
ValidateBegin ==
    /\ pc = "validate"
    /\ job' = [job EXCEPT !.status = "validating"]
    /\ db' = Save(job')
    /\ pc' = "validate_check"
    /\ UNCHANGED <<reader, noop_repair, schema_vars, other, results, events, locals, meters, caller>>

\* A loop that calls the provider for the whole schema again while
\* iterations are left, whatever the validation returned.
AfterValidation_Again(j, n, is_valid) ==
    IF HasNextPass(j, n) THEN "extract_call"
    ELSE IF is_valid THEN "complete_valid"
    ELSE "complete_final"

\* run_multi_pass_extraction: where the loop goes after validate_results
\* returned is_valid in iteration n.
AfterValidation(j, n, is_valid) ==
    IF is_valid THEN "complete_valid"
    ELSE IF HasNextPass(j, n) THEN "repair"
    ELSE "complete_final"

\* A loop that does not advance: the iteration after a validation that found
\* defects has the index of the one before (followed as far as MaxPasses + 1
\* provider calls).
ValidateCheck_SamePass ==
    /\ pc = "validate_check"
    /\ calls_run <= MaxPasses
    /\ \E errors \in {ValidationErrors(schema_definition,
                                        ResultsOfPass(results, job.current_pass))} :
          \E next \in {AfterValidation(job, pass_num, Len(errors) = 0)} :
             /\ results' = MarkInvalid(schema_definition, results, job.current_pass)
             /\ events' = Append(events, ValidateEvent(job, errors))
             /\ pc' = next
             /\ UNCHANGED pass_num
    /\ UNCHANGED <<reader, noop_repair, schema_vars, other, job, db, response, repair_schema,
                   document_text, row_idx, meters, caller>>

\* validate_results: apply the rules to the results of the current pass,
\* record the validate event, return is_valid to the loop.
ValidateCheck ==
    /\ pc = "validate_check"
    /\ \E errors \in {ValidationErrors(schema_definition,
                                        ResultsOfPass(results, job.current_pass))} :
          \E next \in {AfterValidation(job, pass_num, Len(errors) = 0)} :
             /\ results' = MarkInvalid(schema_definition, results, job.current_pass)
             /\ events' = Append(events, ValidateEvent(job, errors))
             /\ pc' = next
             /\ pass_num' = IF next = "repair" THEN pass_num + 1 ELSE pass_num
    /\ UNCHANGED <<reader, noop_repair, schema_vars, other, job, db, response, repair_schema, document_text, row_idx,
                   meters, caller>>

\* run_multi_pass_extraction: validation passed; completed; return True
CompleteValid ==
    /\ pc = "complete_valid"
    /\ job' = MarkCompleted(job)
    /\ db' = Save(job')
    /\ Return("True")
    /\ UNCHANGED <<reader, noop_repair, schema_vars, other, results, events, meters, req, nreq, pre>>

\* A loop that fails the job when its last validation failed.
FinalOutcome_Failed(j) ==
    [j EXCEPT !.status = "failed", !.error_message = "validation failed"]

\* run_multi_pass_extraction: the status the job gets when the loop ends
\* with the last validation failed.
FinalOutcome(j) == MarkCompleted(j)

\* run_multi_pass_extraction: after the loop; completed; return True
CompleteFinal ==
    /\ pc = "complete_final"
    /\ job' = FinalOutcome(job)
    /\ db' = Save(job')
    /\ Return("True")
    /\ UNCHANGED <<reader, noop_repair, schema_vars, other, results, events, meters, req, nreq, pre>>

(***************************************************************************)
(* repair_results                                                          *)
(***************************************************************************)

\* repair_results: status = 'repairing'; save
RepairBegin ==
    /\ pc = "repair"
    /\ job' = [job EXCEPT !.status = "repairing"]
    /\ db' = Save(job')
    /\ pc' = "repair_query"
    /\ UNCHANGED <<reader, noop_repair, schema_vars, other, results, events, locals, meters, caller>>

\* repair_results: with no invalid result, return True without a provider
\* call; otherwise document_text = self._get_document_text(), used as it is
\* returned.
RepairQuery ==
    /\ pc = "repair_query"
    /\ IF InvalidResults(results, job) = {}
       THEN /\ pc' = "validate"
            /\ noop_repair' = TRUE
            /\ UNCHANGED document_text
       ELSE /\ \E fetched \in {"", "text"} : document_text' = fetched
            /\ pc' = "repair_call"
            /\ UNCHANGED noop_repair
    /\ UNCHANGED <<reader, schema_vars, other, job, db, results, events, pass_num, response, repair_schema,
                   row_idx, meters, caller>>

\* repair_results: the job after the handler of a fault of the repair, which
\* logs the fault and returns False.
RepairFailed(j, e) == j

\* repair_results: narrow the schema to the invalid fields, call the
\* provider.  The provider raises (repair_results returns False, and so
\* does the run), or returns a value for every field of the narrowed schema,
\* which is written over the invalid results; the repair event is recorded.
RepairCall ==
    /\ pc = "repair_call"
    /\ LET invalid_field_names == {r.field_name : r \in InvalidResults(results, job)}
           narrowed == RepairSchema(schema_name, schema_definition, invalid_field_names)
       IN /\ calls' = calls + 1
          /\ calls_run' = calls_run + 1
          /\ \/ /\ job' = RepairFailed(job, "ProviderError")
                /\ db' = Save(job')
                /\ fault' = "repair"
                /\ Return("False")
                /\ UNCHANGED <<results, events, reported>>
             \/ /\ \E vals \in [{f.name : f \in Range(narrowed.fields)} -> Values],
                       usage \in Usages :
                      /\ results' = ApplyRepair(results, job, vals)
                      /\ reported' = AddUsage(reported, usage)
                /\ repair_schema' = narrowed
                /\ document_text' = NULL
                /\ events' = Append(events, RepairEvent(job, narrowed.fields))
                /\ pc' = "validate"
                /\ UNCHANGED <<job, db, fault, ret, pass_num, response, row_idx>>
    /\ UNCHANGED <<reader, noop_repair, schema_vars, other, req, nreq, pre>>

(***************************************************************************)
(* The specification                                                       *)
(***************************************************************************)

\* A step of the run in progress.
RunStep ==
    \/ ExtractBegin
    \/ ExtractFetch
    \/ ExtractCall
    \/ SaveResult
    \/ SaveStatistics
    \/ ExtractCompleted
    \/ ValidateBegin
    \/ ValidateCheck
    \/ CompleteValid
    \/ CompleteFinal
    \/ RepairBegin
    \/ RepairQuery
    \/ RepairCall

\* The service as the views call it: a job is created and started, and a
\* failed job is retried through the retry endpoint.
Next ==
    \/ CreateExtractionJob
    \/ ViewRetry
    \/ RunStep

Spec == Init /\ [][Next]_vars

\* The run is a single thread of the caller's request: it keeps stepping
\* until it returns.
FairSpec == Spec /\ WF_vars(RunStep)

(***************************************************************************)
(* A reader: GET /api/jobs/<id>/ handled while a run is in progress.  The  *)
(* view loads the job row, then the serializer queries the job's results.  *)
(***************************************************************************)

\* ExtractionJobViewSet.retrieve: self.get_object(), while a run is in
\* progress.  Only the reads that find the job past processing are kept:
\* the others lead to no observation of interest.
ReadJob ==
    /\ pc # "idle"
    /\ reader.phase = "idle"
    /\ db.status \in {"validating", "repairing", "completed"}
    /\ reader' = [phase |-> "job_read", status |-> db.status,
                  current_pass |-> db.current_pass]
    /\ UNCHANGED <<noop_repair, schema_vars, other, job, db, results, events, pc, locals, meters, caller>>

\* ExtractionJobSerializer: the nested results are read from the store as
\* it is now, and the response is sent.
ReadResults ==
    /\ reader.phase = "job_read"
    /\ reader' = NoRead
    /\ UNCHANGED <<noop_repair, schema_vars, other, job, db, results, events, pc, locals, meters, caller>>

\* The service with a reader beside it.
ReaderNext ==
    \/ CreateExtractionJob
    \/ ViewRetry
    \/ RunStep
    \/ ReadJob
    \/ ReadResults

ReaderSpec == Init /\ [][ReaderNext]_vars

(***************************************************************************)
(* The store failing under validate_results.                               *)
(***************************************************************************)

\* validate_results: the rows when the store raised after the first k
\* results of the pass were examined.
MarkedUpTo(schema, rows, p, k) ==
    LET ordered == OrderedResults(ResultsOfPass(rows, p))
        examined == {ordered[i] : i \in 1..k}
    IN {IF r \in examined /\ ResultErrors(schema, r) # <<>>
        THEN [r EXCEPT !.is_valid = FALSE] ELSE r : r \in rows}

\* validate_results: the store raises at the save of the status, at the
\* save of a result (the results before it are marked) or at the creation of
\* the event (all are marked); the handler logs the fault and returns False
\* to the loop, which goes on as after a validation that found defects.
ValidateFault ==
    /\ \/ /\ pc = "validate"
          /\ job' = [job EXCEPT !.status = "validating"]
          /\ UNCHANGED results
       \/ /\ pc = "validate_check"
          /\ \E k \in 0..Cardinality(ResultsOfPass(results, job.current_pass)) :
                results' = MarkedUpTo(schema_definition, results, job.current_pass, k)
          /\ UNCHANGED job
    /\ \E next \in {AfterValidation(job, pass_num, FALSE)} :
          /\ pc' = next
          /\ pass_num' = IF next = "repair" THEN pass_num + 1 ELSE pass_num
    /\ UNCHANGED <<reader, noop_repair, schema_vars, other, db, events, response, repair_schema,
                   document_text, row_idx, meters, caller>>

\* The service with a store that may fail under validate_results as well.
StoreFaultNext ==
    \/ CreateExtractionJob
    \/ ViewRetry
    \/ RunStep
    \/ ValidateFault

StoreFaultSpec == Init /\ [][StoreFaultNext]_vars

(***************************************************************************)
(* Two requests for the same job handled at the same time, each by a       *)
(* handler of its own with its own job object; the store is shared.  The   *)
(* actions above are those of the handler that is scheduled; Switch        *)
(* schedules the other one.                                                *)
(***************************************************************************)

\* The scheduler passes from one handler to the other, between two steps.
Switch ==
    /\ other' = Descheduled
    /\ job' = other.job
    /\ pc' = other.pc
    /\ pass_num' = other.pass_num
    /\ response' = other.response
    /\ repair_schema' = other.repair_schema
    /\ document_text' = other.document_text
    /\ row_idx' = other.row_idx
    /\ calls_run' = other.calls_run
    /\ fault' = other.fault
    /\ req' = other.req
    /\ ret' = other.ret
    /\ pre' = other.pre
    /\ UNCHANGED <<reader, noop_repair, schema_vars, db, results, events, calls, reported, nreq>>

\* ExtractionJobViewSet.retry: job = self.get_object() and the check of its
\* status, a read of the store of its own.
ViewRetryCheck ==
    /\ Invoke("view_retry", MaxOps)
    /\ IF ViewAdmits(db)
       THEN /\ pc' = "retry_admitted"
            /\ ret' = "running"
            /\ UNCHANGED <<job, db, fault, calls_run>>
       ELSE Refuse("HTTP_400")
    /\ UNCHANGED <<reader, noop_repair, schema_vars, other, results, events, locals, calls,
                   reported>>

\* ExtractionJobViewSet.retry: retry_extraction_job(job.id), which reads the
\* job again, checks the limit, resets the job and runs it.
ViewRetryRun ==
    /\ pc = "retry_admitted"
    /\ IF RetryLimitReached(db)
       THEN /\ ret' = "ValueError"
            /\ pc' = "idle"
            /\ UNCHANGED <<job, db, fault, calls_run>>
       ELSE /\ db' = Save(ResetForRetry(db))
            /\ EnterRun(ResetForRetry(db))
    /\ UNCHANGED <<reader, noop_repair, schema_vars, other, results, events, locals, calls,
                   reported, req, nreq, pre>>

ConcurrentNext ==
    \/ CreateExtractionJob
    \/ ViewRetryCheck
    \/ ViewRetryRun
    \/ RunStep
    \/ Switch

\* The jobs of Init with the smaller schemas and loops.
ConcurrentInit ==
    /\ Init
    /\ Len(schema_definition) <= MaxConcurrentFields
    /\ db.total_passes <= MaxConcurrentPasses

ConcurrentSpec == ConcurrentInit /\ [][ConcurrentNext]_vars

(***************************************************************************)
(* create_extraction_job called with an argument that no serializer has    *)
(* bounded, as the extract view and the scripts call it.                   *)
(***************************************************************************)

\* create_extraction_job: total_passes or settings.EXTRACTION_VALIDATION_PASSES
\* is any integer, a negative argument or a setting of 0 included.
ServiceInit ==
    /\ schema_definition \in Schemas
    /\ schema_keys = WellFormedKeys
    /\ InitJobOf(-1..MaxPasses)

ServiceSpec == ServiceInit /\ [][Next]_vars

\* The engine's two operations called on a job in any state, as a caller of
\* services.py can.
EngineNext ==
    \/ RunMultiPassExtraction
    \/ RetryExtractionJob
    \/ ViewRetry
    \/ RunStep

EngineSpec == EngineInit /\ [][EngineNext]_vars

(***************************************************************************)
(* The claims                                                              *)
(***************************************************************************)

\* The status changes of the state machine
\* pending -> processing -> validating -> (repairing -> validating)* ->
\* completed | failed.
StatusEdges ==
    {<<"pending", "processing">>, <<"processing", "validating">>,
     <<"validating", "repairing">>, <<"repairing", "validating">>,
     <<"validating", "completed">>, <<"processing", "failed">>,
     <<"repairing", "failed">>}

\* A run is in progress.
Running == pc # "idle"

\* C1: a new job is pending with current_pass 0, and every change of the
\* persisted status made by a run follows one of the edges of StatusEdges.
C1_StatusFollowsEdges ==
    /\ db.status = "pending" /\ db.current_pass = 0
    /\ [][(Running /\ db'.status # db.status)
            => <<db.status, db'.status>> \in StatusEdges]_vars

\* C2: within a run, once the persisted status is completed with
\* completed_at set, no later step of the run changes the status.
C2_CompletedStaysCompleted ==
    [][(Running /\ db.status = "completed" /\ db.completed_at # NULL)
         => db'.status = "completed"]_vars

\* The step in which a run meets a fault in `where`.
FaultStep(where) == fault = "none" /\ fault' = where

\* C3: a fault of the provider call of a repair pass makes the job failed
\* with error_message set and retry_count one higher, and ends the run.
C3_RepairFaultFails ==
    [][FaultStep("repair")
         => /\ db.status = "repairing"
            /\ db'.status = "failed"
            /\ db'.error_message # NULL
            /\ db'.retry_count = db.retry_count + 1
            /\ pc' = "idle"]_vars

\* C4: a fault while the job is processing makes the job failed with
\* error_message set, ends the run at once, with no validation or repair
\* after it, and the run has then raised retry_count by exactly one; no
\* other step of a run changes retry_count.
C4_ExtractFaultFails ==
    [][/\ FaultStep("extract")
            => /\ db.status = "processing"
               /\ db'.status = "failed"
               /\ db'.error_message # NULL
               /\ db'.retry_count = pre.retry_count + 1
               /\ pc' = "idle"
               /\ ret' = "False"
               /\ UNCHANGED <<results, events>>
       /\ (Running /\ db'.retry_count # db.retry_count) => FaultStep("extract")]_vars

\* A run that failed in its first pass: the job is failed, its fault
\* recorded and counted.
C4_Witness ==
    /\ pc = "idle"
    /\ fault = "extract"
    /\ db.status = "failed"
    /\ db.error_message = "ProviderError"
    /\ db.retry_count = pre.retry_count + 1
    /\ events = <<>>

\* The last validation of the job found defects.
LastValidationInvalid ==
    /\ events # <<>>
    /\ events[Len(events)].action = "validate"
    /\ ~events[Len(events)].is_valid

\* C5: every run ends, and a run that met no fault ends with the job
\* completed and completed_at set, also when its last validation found
\* defects.
C5_BestEffortCompletion ==
    Running ~> (/\ pc = "idle"
                /\ fault = "none" => (db.status = "completed" /\ db.completed_at # NULL))

\* A run that ended completed although its last validation found defects.
C5_Witness ==
    /\ pc = "idle"
    /\ fault = "none"
    /\ ret = "True"
    /\ LastValidationInvalid
    /\ db.status = "completed"
    /\ db.completed_at # NULL

\* C6: current_pass never decreases and never exceeds total_passes.
C6_CurrentPassBounded ==
    [][db'.current_pass >= db.current_pass /\ db'.current_pass <= db'.total_passes]_vars

\* The step in which a caller invokes the operation `name`.
Invoked(name) == nreq' = nreq + 1 /\ req' = name

\* The step in which retry_extraction_job is called: directly, or by the
\* retry endpoint, which calls it for a failed job.
RetryInvoked == Invoked("retry") \/ (Invoked("view_retry") /\ db.status = "failed")

\* C7: retry on a job with retry_count >= max_retries raises the retry-limit
\* error, changes nothing of the job, its results and its events, and calls
\* no provider.
C7_RetryLimitRefused ==
    [][(RetryInvoked /\ db.retry_count >= db.max_retries)
         => /\ ret' = "ValueError"
            /\ pc' = "idle"
            /\ UNCHANGED <<db, results, events, calls>>]_vars

\* A retry of a failed job that was refused for the limit.
C7_Witness ==
    /\ req = "view_retry"
    /\ ret = "ValueError"
    /\ pc = "idle"
    /\ db.status = "failed"
    /\ db.retry_count >= db.max_retries

\* C8: retry invoked on a job that is not failed is rejected and changes
\* neither the job nor its results nor its events.
C8_RetryOnlyFromFailed ==
    [][((Invoked("retry") \/ Invoked("view_retry")) /\ db.status # "failed")
         => /\ pc' = "idle"
            /\ UNCHANGED <<db, results, events>>]_vars

\* C9: retry on a failed job below the limit makes the job pending, clears
\* error_message and enters the pipeline at the first-pass extraction; the
\* retried run ends with the job completed or failed.
C9_RetryReentersPipeline ==
    [][/\ (RetryInvoked /\ db.status = "failed" /\ db.retry_count < db.max_retries)
            => /\ db'.status = "pending"
               /\ db'.error_message = NULL
               /\ pc' = "extract"
       /\ (req \in {"retry", "view_retry"} /\ Running /\ pc' = "idle")
            => db'.status \in {"completed", "failed"}]_vars

\* C10: start invoked on a job that is completed or failed calls no
\* provider and leaves the job, its results and its events as they are.
C10_StartIdempotentOnTerminal ==
    [][(req = "start" /\ Running /\ pre.status \in {"completed", "failed"})
         => UNCHANGED <<db, results, events, calls>>]_vars

\* The step in which a run returns to its caller.
RunEnds == Running /\ pc' = "idle"

\* C11: a run of a job with total_passes = 1 never makes the job repairing,
\* makes at most one provider call, and exactly one when it got as far as
\* the validation of the first pass, valid or not.
C11_SinglePassNoRepair ==
    [][(Running /\ db.total_passes = 1)
         => /\ db'.status # "repairing"
            /\ calls_run' <= 1
            /\ (RunEnds /\ fault' = "none") => calls_run' = 1]_vars

\* A single-pass run that ended after an invalid validation with one call.
C11_Witness ==
    /\ pc = "idle"
    /\ db.total_passes = 1
    /\ ret = "True"
    /\ LastValidationInvalid
    /\ calls_run = 1
    /\ db.status = "completed"

\* The fields for which a validate event records the defect `msg`.
ErrorFields(e, msg) ==
    {e.validation_errors[k][1] :
        k \in {i \in 1..Len(e.validation_errors) : e.validation_errors[i][2] = msg}}

\* The fields a validate event records with any defect.
Flagged(e) ==
    {e.validation_errors[k][1] : k \in 1..Len(e.validation_errors)}

\* The names of the required fields of a schema.
RequiredNames(schema) == {f.name : f \in {g \in Range(schema) : g.required}}

\* The fields the first pass returned as null: the first pass writes a
\* confidence below the threshold exactly for them.
FirstPassNulls == ErrorFields(events[1], "Low confidence")

\* Scenario A at the end of a run: the first pass returned null for some
\* required fields and for nothing else, and the repair returned a value
\* for each of them.
ScenarioA ==
    /\ pc = "idle"
    /\ ret = "True"
    /\ db.total_passes >= 2
    /\ Len(events) >= 3
    /\ FirstPassNulls # {}
    /\ FirstPassNulls \subseteq RequiredNames(schema_definition)
    /\ ErrorFields(events[3], "Required field is null") = {}

\* Scenario A but for the job's confidence_score: the validator flagged
\* exactly the null fields, one repair call was made, for exactly these
\* fields in the schema's order, and the job is completed.
ScenarioA_Repaired ==
    /\ Flagged(events[1]) = FirstPassNulls
    /\ events[2].action = "repair"
    /\ events[2].repaired_fields =
           [i \in 1..Len(NarrowedFields(schema_definition, FirstPassNulls)) |->
               NarrowedFields(schema_definition, FirstPassNulls)[i].name]
    /\ Len(events) = 3
    /\ calls_run = 2
    /\ db.status = "completed"

\* C12: at the end of scenario A the validator has flagged exactly the
\* null required fields, exactly one repair call was made with the schema
\* narrowed to them, the job is completed, and confidence_score is the mean
\* of 0.9 for each untouched field and 0.85 for each repaired field.
C12_ScenarioA ==
    ScenarioA
      => /\ ScenarioA_Repaired
         /\ db.confidence_score.count = Len(schema_definition)
         /\ db.confidence_score.sum =
                90 * (Len(schema_definition) - Cardinality(FirstPassNulls))
                + RepairConfidence * Cardinality(FirstPassNulls)

\* What does hold at the end of scenario A: confidence_score is still the
\* mean the first pass computed, with 0.3 for each field then null.
ScenarioA_FirstPassScore ==
    ScenarioA
      => /\ ScenarioA_Repaired
         /\ db.confidence_score.count = Len(schema_definition)
         /\ db.confidence_score.sum =
                90 * (Len(schema_definition) - Cardinality(FirstPassNulls))
                + 30 * Cardinality(FirstPassNulls)

\* The Field Result of field `name` written by the pass the job is in.
CurrentResult(name) ==
    CHOOSE r \in ResultsOfPass(results, db.current_pass) : r.field_name = name

\* Scenario B at the end of a run with total_passes = 2, for the optional
\* field `name`: the first pass returned null for this field only (the one
\* value that gets a confidence below the threshold), and so did the repair.
ScenarioB(name) ==
    /\ pc = "idle"
    /\ ret = "True"
    /\ db.total_passes = 2
    /\ Len(events) = 3
    /\ name \in SchemaNames(schema_definition) \ RequiredNames(schema_definition)
    /\ FirstPassNulls = {name}
    /\ events[2].action = "repair"
    /\ CurrentResult(name).value = NULL

\* C13: at the end of scenario B the job is completed and the Field Result
\* of the field is persisted with is_valid = false.
C13_ScenarioB ==
    \A name \in SchemaNames(schema_definition) :
        ScenarioB(name)
          => /\ db.status = "completed"
             /\ ~CurrentResult(name).is_valid

\* What does hold at the end of scenario B: the job is completed and the
\* repair has written confidence 0.85 and is_valid = true on the field.
ScenarioB_RepairedValid ==
    \A name \in SchemaNames(schema_definition) :
        ScenarioB(name)
          => /\ db.status = "completed"
             /\ CurrentResult(name).is_valid
             /\ CurrentResult(name).confidence = RepairConfidence

\* C14: a run on a schema definition without the key 'fields' calls no
\* provider and ends with the job failed.
C14_MissingFieldsNoCall ==
    [][(Running /\ "fields" \notin schema_keys)
         => /\ calls' = calls
            /\ RunEnds => db'.status = "failed"]_vars

\* What does hold for such a schema: the run ends failed, after exactly one
\* provider call.
MissingFieldsFailsAfterCall ==
    [][(RunEnds /\ "fields" \notin schema_keys)
         => /\ db'.status = "failed"
            /\ calls_run' = 1]_vars

\* The token counters of a job row.
Tokens(j) ==
    [prompt_tokens |-> j.prompt_tokens, completion_tokens |-> j.completion_tokens,
     total_tokens |-> j.total_tokens]

\* C15: when a run has ended, the job's token counters are the sums of the
\* usage reported by every provider call made for the job, first-pass and
\* repair calls alike, and no step lowers a counter.
C15_UsageAccumulated ==
    [][/\ RunEnds => Tokens(db') = reported'
       /\ db'.prompt_tokens >= db.prompt_tokens
       /\ db'.completion_tokens >= db.completion_tokens
       /\ db'.total_tokens >= db.total_tokens]_vars

\* The step in which validate_results applies its rules.
ValidationStep == pc = "validate_check" /\ pc' # "validate_check"

\* A Field Result is defective: its confidence is below 0.5, or its field
\* is required and its value is null.
Defective(r) ==
    \/ r.confidence < ConfidenceThreshold
    \/ /\ r.field_name \in RequiredNames(schema_definition)
       /\ r.value = NULL

\* C16: the validation of a pass reports a Field Result of the current pass
\* as a defect, and saves it with is_valid = false, exactly when it is
\* defective; every other Field Result is left as it is; and the pass is
\* valid exactly when no defect was reported.
C16_ValidatorRule ==
    [][ValidationStep
         => LET event == events'[Len(events')]
                current == ResultsOfPass(results, db.current_pass)
            IN /\ Len(events') = Len(events) + 1
               /\ event.action = "validate"
               /\ Flagged(event) = {r.field_name : r \in {x \in current : Defective(x)}}
               /\ results' = {IF r \in current /\ Defective(r)
                              THEN [r EXCEPT !.is_valid = FALSE] ELSE r : r \in results}
               /\ event.is_valid <=> event.validation_errors = <<>>
               /\ pc' = "complete_valid" <=> event.is_valid]_vars

\* A validation that flagged one Field Result of the pass and left another
\* one valid.
C16_Witness ==
    /\ pc \in {"repair", "complete_final"}
    /\ LastValidationInvalid
    /\ \E r1, r2 \in ResultsOfPass(results, db.current_pass) :
          /\ ~r1.is_valid /\ Defective(r1)
          /\ r2.is_valid /\ ~Defective(r2)

\* The provider returned null for every field in the first pass of the
\* run, whose results are about to be validated.
AllNullFirstPass ==
    /\ pass_num = 0
    /\ RequiredNames(schema_definition) # {}
    /\ \A r \in ResultsOfPass(results, db.current_pass) : r.value = NULL

\* C17: when the provider returned null for every field of a schema with a
\* required field, the first pass has written one result of confidence 0.3
\* for every field and the confidence_score 0.3, and the validation flags
\* every required field and saves its result with is_valid = false.
C17_AllNullFirstPass ==
    [][(ValidationStep /\ AllNullFirstPass)
         => LET current == ResultsOfPass(results, db.current_pass)
            IN /\ {r.field_name : r \in current} = SchemaNames(schema_definition)
               /\ Cardinality(current) = Len(schema_definition)
               /\ \A r \in current : r.confidence = 30
               /\ db.confidence_score.count = Len(schema_definition)
               /\ db.confidence_score.sum = 30 * db.confidence_score.count
               /\ RequiredNames(schema_definition) \subseteq Flagged(events'[Len(events')])
               /\ \A r \in ResultsOfPass(results', db.current_pass) :
                     r.field_name \in RequiredNames(schema_definition) => ~r.is_valid]_vars

\* The first pass of a schema with a required and an optional field came
\* back all null and was validated.
C17_Witness ==
    /\ pc \in {"repair", "complete_final"}
    /\ pass_num <= 1
    /\ Len(events) = 1
    /\ Len(schema_definition) = 2
    /\ Cardinality(RequiredNames(schema_definition)) = 1
    /\ \A r \in ResultsOfPass(results, db.current_pass) : r.value = NULL /\ ~r.is_valid
    /\ db.confidence_score = [sum |-> 60, count |-> 2]

\* The step that ends _save_extraction_results.
FirstPassWritten == pc = "save_results" /\ pc' = "extract_done"

\* C18: when the first pass has been written, the job has exactly one Field
\* Result for every schema field, with pass index 1, the returned value,
\* and confidence 0.9 for a value and 0.3 for null; total_fields is the
\* number of schema fields, extracted_fields the number of results written,
\* confidence_score the mean of their confidences (still undefined for a
\* schema without fields), and current_pass is one higher than before.
C18_FirstPassWrite ==
    [][FirstPassWritten
         => LET written == ResultsOfPass(results', 1)
                nulls == {r \in written : r.value = NULL}
            IN /\ results' = written
               /\ {r.field_name : r \in written} = SchemaNames(schema_definition)
               /\ Cardinality(written) = Len(schema_definition)
               /\ \A r \in written :
                     /\ r.value = response[r.field_name]
                     /\ r.confidence = (IF r.value = NULL THEN 30 ELSE 90)
               /\ db'.total_fields = Len(schema_definition)
               /\ db'.extracted_fields = Cardinality(written)
               /\ db'.confidence_score =
                     (IF written = {} THEN NoScore
                      ELSE [sum |-> 30 * Cardinality(nulls)
                                    + 90 * Cardinality(written \ nulls),
                            count |-> Cardinality(written)])
               /\ db'.current_pass = db.current_pass + 1
               /\ db'.current_pass = 1]_vars

\* The first pass of a two-field schema written with one value and one null.
C18_Witness ==
    /\ pc = "extract_done"
    /\ db.current_pass = 1
    /\ db.total_fields = 2
    /\ db.extracted_fields = 2
    /\ db.confidence_score = [sum |-> 120, count |-> 2]
    /\ {r.confidence : r \in ResultsOfPass(results, 1)} = {30, 90}

\* The validation step found defects.
InvalidValidationStep == ValidationStep /\ ~events'[Len(events')].is_valid

\* C19: after an invalid validation the run goes to the repair exactly
\* when current_pass < total_passes and completes the job without a repair
\* exactly when current_pass = total_passes; and a run whose validations
\* were all invalid has made total_passes - 1 repair calls.
C19_RepairWhileBelowTotal ==
    [][/\ InvalidValidationStep
            => /\ pc' = "repair" <=> db.current_pass < db.total_passes
               /\ pc' = "complete_final" <=> db.current_pass = db.total_passes
       /\ (RunEnds /\ fault' = "none" /\ LastValidationInvalid)
            => calls_run' = db.total_passes]_vars

\* What does hold: the run goes to the repair exactly when the loop has an
\* iteration left, whatever current_pass is (the repair leaves it at 1),
\* and a run whose validations were all invalid has made total_passes - 1
\* repair calls.
RepairWhileIterationsLeft ==
    [][/\ InvalidValidationStep
            => /\ pc' = "repair" <=> pass_num + 1 < db.total_passes
               /\ pc' = "complete_final" <=> pass_num + 1 = db.total_passes
               /\ db.current_pass = 1
       /\ (RunEnds /\ fault' = "none" /\ LastValidationInvalid)
            => calls_run' = db.total_passes]_vars

\* The step in which a repair call was made with the narrowed schema and
\* answered.
RepairPlanned == pc = "repair_call" /\ pc' = "validate"

\* The position of a field definition in a schema.
IndexOf(schema, f) == CHOOSE k \in 1..Len(schema) : schema[k] = f

\* C20: the narrowed schema of a repair is named <schema_name>_Repair and
\* holds exactly the field definitions of the job's schema whose names are
\* in the defect set, unchanged, each once, in the order of the job's
\* schema.
C20_RepairSchemaNarrowed ==
    [][RepairPlanned
         => LET defects == {r.field_name :
                              r \in {x \in ResultsOfPass(results, db.current_pass) :
                                        ~x.is_valid}}
                narrowed == repair_schema'.fields
            IN /\ defects = Flagged(events[Len(events)])
               /\ repair_schema'.name = schema_name \o "_Repair"
               /\ Range(narrowed) = {f \in Range(schema_definition) : f.name \in defects}
               /\ Len(narrowed) = Cardinality(defects)
               /\ \A i, k \in 1..Len(narrowed) :
                     i < k => IndexOf(schema_definition, narrowed[i])
                                < IndexOf(schema_definition, narrowed[k])]_vars

\* A repair planned for two defective fields, one of them required, which
\* the schema lists in another order than the query of the invalid results.
C20_Witness ==
    /\ pc = "validate"
    /\ Len(repair_schema.fields) = 2
    /\ repair_schema.fields[1].name > repair_schema.fields[2].name
    /\ \E i \in 1..2 : repair_schema.fields[i].required
    /\ repair_schema.name = "Schema_Repair"

\* The names of the invalid Field Results of the current pass.
Defects ==
    {r.field_name : r \in {x \in ResultsOfPass(results, db.current_pass) : ~x.is_valid}}

LiveResults == ResultsOfPass(results, db.current_pass)

\* C22: the job never has two Field Results for the same field name and
\* pass, and never two live Field Results for the same field name.
C22_OneResultPerField ==
    /\ \A r1, r2 \in results :
          (r1.field_name = r2.field_name /\ r1.extraction_pass = r2.extraction_pass)
            => r1 = r2
    /\ \A name \in SchemaNames(schema_definition) :
          Cardinality({r \in LiveResults : r.field_name = name}) <= 1

\* The store has rejected the second write of a Field Result: the run that
\* attempted it failed on the unique constraint.
C22_Witness ==
    /\ pc = "idle"
    /\ fault = "extract"
    /\ db.error_message = "IntegrityError"
    /\ results # {}

\* With a job started once and retried through the retry endpoint only:
\* never two Field Results for the same field name, of whatever pass.
OneRowPerField ==
    \A r1, r2 \in results :
        r1.field_name = r2.field_name => r1 = r2

\* The statuses past processing.
Advanced == {"validating", "repairing", "completed"}

\* The Field Results of pass p in the rows cover the schema.
AllPresent(rows, p) ==
    {r.field_name : r \in ResultsOfPass(rows, p)} = SchemaNames(schema_definition)

\* C23: whenever the persisted status is past processing, a Field Result of
\* the job's pass is persisted for every schema field; and a reader that
\* has read a status past processing on the job row reads, whenever it then
\* reads the results, a Field Result of that pass for every schema field.
C23_AtomicVisibility ==
    [][/\ db'.status \in Advanced => AllPresent(results', db'.current_pass)
       /\ (reader.phase = "job_read" /\ reader'.phase = "idle"
             /\ reader.status \in Advanced)
            => AllPresent(results, reader.current_pass)]_vars

\* A reader has read the job as validating and has not read the results yet,
\* while the run has gone on to a repair.
C23_Witness ==
    /\ reader.phase = "job_read"
    /\ reader.status = "validating"
    /\ pc = "repair_call"
    /\ db.status = "repairing"
    /\ Len(schema_definition) = 2

\* A step that calls the provider, and one that calls it for a repair.
ProviderCall == calls' = calls + 1
RepairProviderCall == pc = "repair_call" /\ ProviderCall

\* The validate events of the trail.
Validations == SelectSeq(events, LAMBDA e : e.action = "validate")

C25_FetchNotFatal ==
    [][/\ (pc = "extract_fetch" /\ pc' # pc)
            => /\ pc' = "extract_call"
               /\ document_text' \in {PLACEHOLDER, "text"}
               /\ UNCHANGED <<job, db, fault, ret>>
       /\ (pc = "repair_query" /\ pc' # pc /\ InvalidResults(results, job) # {})
            => /\ pc' = "repair_call"
               /\ document_text' \in {"", "text"}
               /\ UNCHANGED <<job, db, fault, ret>>
       /\ (pc \in {"extract_call", "repair_call"} /\ pc' # pc) => ProviderCall
       /\ (db'.status = "failed" /\ db.status # "failed")
            => pc \notin {"extract_fetch", "repair_query"}]_vars

\* The fetch of a repair returned no text and the run stands at the provider
\* call, the job not failed.
C25_Witness ==
    /\ pc = "repair_call"
    /\ document_text = ""
    /\ calls_run = 1
    /\ db.status = "repairing"
    /\ fault = "none"

\* C26: a run that a fault of the provider stops returns to its caller
\* without raising and leaves the job failed with error_message set; and a
\* failed job has error_message set.
C26_SoleFaultChannel ==
    [][/\ (RunEnds /\ fault' \in {"extract", "repair"})
            => /\ ret' \in {"True", "False"}
               /\ db'.status = "failed"
               /\ db'.error_message # NULL
       /\ db'.status = "failed" => db'.error_message # NULL]_vars

\* What does hold: no run raises on a fault of the provider, a fault of the
\* first pass is reported by the status and error_message, and a failed job
\* has error_message set.
FirstPassFaultReported ==
    [][/\ (RunEnds /\ fault' \in {"extract", "repair"}) => ret' = "False"
       /\ (RunEnds /\ fault' = "extract")
            => /\ db'.status = "failed"
               /\ db'.error_message # NULL
       /\ db'.status = "failed" => db'.error_message # NULL]_vars

\* The field and pass a Field Result is stored under.
RowKey(r) == <<r.field_name, r.extraction_pass>>

\* C27: a repair that got the provider's answer leaves every Field Result
\* that was valid, and every one of another pass, as it was; the results it
\* changes were invalid ones of the job's pass, and each is replaced by a
\* result under the same field and pass; no row is added or removed; and the
\* job's pass index is not changed.
C27_RepairFrame ==
    [][RepairPlanned
         => /\ \A r \in results :
                  (r.is_valid \/ r.extraction_pass # job.current_pass) => r \in results'
            /\ \A r \in results \ results' :
                  /\ ~r.is_valid
                  /\ r.extraction_pass = job.current_pass
                  /\ \E q \in results' \ results : RowKey(q) = RowKey(r)
            /\ {RowKey(r) : r \in results'} = {RowKey(r) : r \in results}
            /\ Cardinality(results') = Cardinality(results)
            /\ job'.current_pass = job.current_pass
            /\ db'.current_pass = db.current_pass]_vars

\* A repair has rewritten one result beside one that was valid and is as the
\* first pass wrote it.
C27_Witness ==
    /\ pc = "validate"
    /\ Len(events) > 0
    /\ events[Len(events)].action = "repair"
    /\ \E r, q \in results :
          /\ r.confidence = RepairConfidence
          /\ q.confidence = 90
          /\ q.is_valid
          /\ q.field_name # r.field_name

\* The results of the job's pass that break a rule of the validator.
DefectiveResults == {r \in ResultsOfPass(results, job.current_pass) : Defective(r)}

\* The trail after a step is the trail before it with one event more.
OneEventAppended ==
    /\ Len(events') = Len(events) + 1
    /\ SubSeq(events', 1, Len(events)) = events

DegenerateRepair ==
    /\ pc = "repair_query"
    /\ pc' # pc
    /\ {r \in ResultsOfPass(results, job.current_pass) : ~r.is_valid} = {}

\* C29: a repair step that finds no invalid result of the job's pass calls
\* no provider and changes no Field Result; and the pass is taken as valid:
\* the run calls the provider no more, and ends with the job completed.
C29_DegenerateRepair ==
    [][/\ DegenerateRepair => UNCHANGED <<calls, results>>
       /\ noop_repair => ~ProviderCall
       /\ (noop_repair /\ RunEnds) => db'.status = "completed"]_vars

\* What does hold: the step calls no provider, changes no Field Result, no
\* event and nothing of the job, and hands the pass to the validator.
DegenerateRepairIsNoOp ==
    [][DegenerateRepair
         => /\ UNCHANGED <<calls, results, events, job, db>>
            /\ pc' = "validate"]_vars

\* A repair found nothing to repair, and a later repair of the run called
\* the provider.
RepairAfterNoOp == noop_repair /\ pc = "validate" /\ calls_run >= 2

\* A step of the first pass at which the store raised: the run ends, either
\* by the handler of extract or by the exception itself.
StoreFailure ==
    /\ RunEnds
    /\ \/ fault' = "store"
       \/ fault' = "extract" /\ job'.error_message = "StoreError"

\* C30: a step at which the store raised hands the fault to the caller of
\* the run and leaves the persisted job as it was.
C30_StoreErrorPropagated ==
    [][StoreFailure
         => /\ ret' = "StoreError"
            /\ db' = db]_vars

\* The store raised while the results were written, and the run returned
\* False with the job committed as failed and retry_count counted up.
StoreErrorSwallowed ==
    /\ pc = "idle"
    /\ ret = "False"
    /\ fault = "extract"
    /\ db.status = "failed"
    /\ db.error_message = "StoreError"
    /\ db.retry_count = 1

\* C31: a run calls the provider at most total_passes times, the first
\* time for the first pass and only once for it, so at most total_passes - 1
\* times for a repair; it validates at most total_passes times; and it ends.
C31_RunBounded ==
    /\ [](/\ calls_run <= job.total_passes
          /\ Len(Validations) <= job.total_passes
          /\ Len(Validations) <= calls_run)
    /\ [][/\ (pc = "extract_call" /\ ProviderCall) => calls_run = 0
          /\ RepairProviderCall => (calls_run >= 1 /\ calls_run' <= job.total_passes)]_vars
    /\ (Running ~> pc = "idle")

\* A run of a job with total_passes = 3 has ended after three provider calls
\* and three validations.
C31_Witness ==
    /\ pc = "idle"
    /\ job.total_passes = 3
    /\ calls_run = 3
    /\ Len(Validations) = 3
    /\ db.status = "completed"

\* C32: every persisted Field Result has a confidence in [0, 1], and it is
\* one of 0.9, 0.3 and 0.85: 0.9 only beside a value, 0.3 only beside a null.
C32_ConfidenceValues ==
    \A r \in results :
       /\ r.confidence \in 0..100
       /\ r.confidence \in {90, 30, RepairConfidence}
       /\ r.confidence = 90 => r.value # NULL
       /\ r.confidence = 30 => r.value = NULL

\* The store holds a value of the first pass beside a result that was a
\* null of the first pass, at 0.3, and was repaired to a null at 0.85.
C32_Witness ==
    /\ \E r \in results : r.confidence = 90
    /\ \E r \in results : r.confidence = RepairConfidence /\ r.value = NULL
    /\ events # <<>>

RunEntered == pc = "idle" /\ pc' # "idle"

\* The larger of two numbers.
Max(a, b) == IF a >= b THEN a ELSE b

\* C34: when a run is entered, every run before it has failed in the first
\* pass, having called the provider once and counted retry_count up once, so
\* both count the runs so far; with the run entered they are at most
\* max(1, max_retries); a retry is entered only with retry_count below
\* max_retries, and one requested at the limit is refused with the
\* retry-limit error.
C34_ExecutionsBounded ==
    [][/\ RunEntered
            => /\ calls = db.retry_count
               /\ calls + 1 <= Max(1, db.max_retries)
               /\ req' = "view_retry"
                    => (db.retry_count >= 1 /\ db.retry_count < db.max_retries)
       /\ (Invoked("view_retry") /\ db.status = "failed"
             /\ db.retry_count >= db.max_retries)
            => (ret' = "ValueError" /\ pc' = "idle" /\ calls' = calls)]_vars

\* A job with max_retries = 2 was run twice, failed twice in the first pass,
\* and its second retry was refused.
C34_Witness ==
    /\ pc = "idle"
    /\ nreq = 3
    /\ req = "view_retry"
    /\ ret = "ValueError"
    /\ db.max_retries = 2
    /\ db.retry_count = 2
    /\ calls = 2

\* The validation that follows a repair.
ValidationAfterRepair ==
    /\ ValidationStep
    /\ Len(events) > 0
    /\ events[Len(events)].action = "repair"

FirstValidation == ValidationStep /\ pass_num = 0

\* The entries of the defect list of event e that name the field.
EntriesFor(e, name) ==
    Cardinality({k \in 1..Len(e.validation_errors) : e.validation_errors[k][1] = name})

\* C36: the validation of the first pass is valid exactly when every result
\* of the pass has a value; every result without one is flagged for low
\* confidence, with one entry when the field is optional and with a second
\* entry, for the required null, when it is required; a result with a value
\* is not flagged.
C36_FirstPassValidIffNoNull ==
    [][FirstValidation
         => LET e == events'[Len(events')]
                rows == ResultsOfPass(results, job.current_pass)
            IN /\ e.is_valid = (\A r \in rows : r.value # NULL)
               /\ \A r \in rows :
                     /\ r.value = NULL => r.confidence = 30
                     /\ r.value # NULL => EntriesFor(e, r.field_name) = 0
                     /\ (r.value = NULL /\ r.field_name \notin RequiredNames(schema_definition))
                          => /\ EntriesFor(e, r.field_name) = 1
                             /\ r.field_name \in ErrorFields(e, "Low confidence")
                     /\ (r.value = NULL /\ r.field_name \in RequiredNames(schema_definition))
                          => /\ EntriesFor(e, r.field_name) = 2
                             /\ r.field_name \in ErrorFields(e, "Low confidence")
                             /\ r.field_name \in ErrorFields(e, "Required field is null")]_vars

\* A first pass returned null for an optional and for a required field; its
\* validation listed three defects.
C36_Witness ==
    /\ Len(events) >= 1
    /\ events[1].action = "validate"
    /\ ~events[1].is_valid
    /\ Len(events[1].validation_errors) = 3
    /\ Flagged(events[1]) \ RequiredNames(schema_definition) # {}

\* C37: a persisted job whose status is not completed has no completed_at.
C37_CompletedAtOnlyWhenCompleted ==
    db.status # "completed" => db.completed_at = NULL

\* What does hold: a job that is pending, processing or failed has no
\* completed_at.
CompletedAtNullBeforeValidation ==
    db.status \in {"pending", "processing", "failed"} => db.completed_at = NULL

\* A job under validation that carries the completed_at of its first pass.
ValidatingWithCompletedAt ==
    /\ db.status = "validating"
    /\ db.completed_at # NULL
    /\ events = <<>>

\* C38: in a run entered with current_pass = 0, current_pass changes only
\* where the first pass stores its statistics, from 0 to 1; validation and
\* repair steps leave it alone; and every Field Result and every event
\* carries pass index 1, whatever the number of repairs.
C38_PassIndexStaysOne ==
    /\ [][(Running /\ pre.current_pass = 0)
            => /\ job'.current_pass # job.current_pass
                    => /\ pc = "save_results"
                       /\ pc' = "extract_done"
                       /\ job.current_pass = 0
                       /\ job'.current_pass = 1
               /\ db'.current_pass \in {db.current_pass, job'.current_pass}
               /\ pc \in {"validate", "validate_check", "repair", "repair_query",
                           "repair_call"}
                    => (job'.current_pass = 1 /\ job.current_pass = 1)]_vars
    /\ [](pre.current_pass = 0
            => /\ \A r \in results : r.extraction_pass = 1
               /\ \A i \in 1..Len(events) : events[i].pass_number = 1
               /\ db.current_pass \in {0, 1})

\* A run with two repairs has ended: the job's pass index is 1, as is that of
\* the five events.
C38_Witness ==
    /\ pc = "idle"
    /\ calls_run = 3
    /\ pre.current_pass = 0
    /\ db.current_pass = 1
    /\ Len(events) >= 5
    /\ results # {}

\* C39: a completed job has been through a first pass: the provider was
\* called, current_pass is at least 1, and a Field Result is stored for
\* every schema field.
C39_CompletedHasResults ==
    db.status = "completed"
       => /\ calls >= 1
          /\ db.current_pass >= 1
          /\ SchemaNames(schema_definition) \subseteq {r.field_name : r \in results}

\* A job with total_passes below 1 that is completed with no provider call,
\* no result and current_pass = 0.
CompletedWithoutExtraction ==
    /\ pc = "idle"
    /\ db.status = "completed"
    /\ db.total_passes < 1
    /\ calls = 0
    /\ db.current_pass = 0
    /\ results = {}
    /\ schema_definition # <<>>

\* A handler at position p is inside run_multi_pass_extraction.
InRun(p) == p \notin {"idle", "retry_admitted"}

\* C40: the two handlers are never both inside a run of the job.
C40_OneRunAtATime == ~(InRun(pc) /\ InRun(other.pc))

\* Two retries of the same failed job are both running its first pass.
TwoRetriesRunning ==
    /\ InRun(pc) /\ req = "view_retry"
    /\ InRun(other.pc) /\ other.req = "view_retry"

\* Both retries have failed and retry_count has counted one of them: the
\* job has failed three times and retry_count is 2.
RetryCountLost ==
    /\ pc = "idle" /\ other.pc = "idle"
    /\ req = "view_retry" /\ other.req = "view_retry"
    /\ fault = "extract" /\ other.fault = "extract"
    /\ calls = 3
    /\ db.retry_count = 2

====
